---- MODULE Spec2Model ----
\* Model of src/bot.py: a Flask webhook that turns BUY/SELL signals into
\* market orders on one OKX perpetual swap through a ccxt exchange object.
\* Quantities (order amounts, position sizes) are counted in units of 0.0001
\* contracts, the granularity calc_contract_size rounds to.
EXTENDS Integers, Sequences, FiniteSets, TLC

\* ---------------------------------------------------------------- bounds

\* Number of webhook requests accepted in one behaviour.
MaxRequests == 2

\* Largest price and largest size the utility functions are applied to on
\* their own.
MaxPrice == 8000
MaxSize == 60

\* ------------------------------------------------------ program constants

POSITION_SIZE_USDT == 50
LEVERAGE == 10
MARGIN_MODE == "cross"
SYMBOL == "ETH/USDT:USDT"
\* the 4 of f"{amount:.4f}": one unit of quantity is 10^-4 contracts
UnitsPerCoin == 10000

\* Another symbol the exchange may report positions for.
OtherSymbol == "BTC/USDT:USDT"

\* Request-handling threads of the development server started by app.run.
Workers == {"w1", "w2"}

\* JSON null / Python None
None == "None"

\* Prices the ticker may report (ticker["last"]): one that gives the quantity
\* 0.0250 and one so high that the quantity rounds to 0.0000.
Prices == {2000, 2000000}

\* Net positions the account may hold when the bot starts (signed, in units):
\* flat, long 0.03 or short 0.03.
InitialPositions == {0, 300, 0 - 300}

\* -------------------------------------------------- strings as char lists

\* str.upper(), character by character, for the characters of RawSignals.
UpperChar(c) ==
    CASE c = "b" -> "B"
      [] c = "u" -> "U"
      [] c = "y" -> "Y"
      [] c = "s" -> "S"
      [] c = "e" -> "E"
      [] c = "l" -> "L"
      [] c = "h" -> "H"
      [] c = "o" -> "O"
      [] c = "d" -> "D"
      [] OTHER -> c

Upper(s) == [i \in 1..Len(s) |-> UpperChar(s[i])]

RECURSIVE LStrip(_)
LStrip(s) == IF s # <<>> /\ Head(s) = " " THEN LStrip(Tail(s)) ELSE s

RECURSIVE RStrip(_)
RStrip(s) ==
    IF s # <<>> /\ s[Len(s)] = " " THEN RStrip(SubSeq(s, 1, Len(s) - 1)) ELSE s

\* str.strip()
Strip(s) == RStrip(LStrip(s))

\* signal = signal.upper().strip()
Normalize(s) == Strip(Upper(s))

BUY == <<"B", "U", "Y">>
SELL == <<"S", "E", "L", "L">>
HOLD == <<"H", "O", "L", "D">>

\* Values of the "signal" field a request body may carry.
RawSignals ==
    { <<"b", "u", "y">>, <<" ", "S", "e", "l", "l", " ">>, HOLD }

\* Values of the "secret" field a request body may carry.
Secrets == {"s3cret", "wrong"}

\* Values WEBHOOK_SECRET may be configured to (unset: os.getenv gives None).
ConfiguredSecrets == {"s3cret", None}


\* A request body without a "signal" field: data.get("signal") is None.
NoSignal == <<None>>

\* ------------------------------------------------------------ the exchange

\* An exchange call as it appears in a log: create_order carries the order,
\* the other calls leave the order fields empty.
Call(op, type, side, amount, reduceOnly, lever, tdMode, ok) ==
    [op |-> op, type |-> type, side |-> side, amount |-> amount,
     reduceOnly |-> reduceOnly, lever |-> lever, tdMode |-> tdMode, ok |-> ok]

FetchPositionsCall(ok) == Call("fetch_positions", "", "", 0, FALSE, 0, "", ok)
FetchTickerCall(ok) == Call("fetch_ticker", "", "", 0, FALSE, 0, "", ok)
SleepCall == Call("sleep", "", "", 0, FALSE, 0, "", TRUE)

\* The arguments of one exchange.create_order(symbol, "market", side, amount,
\* None, params); lever 0 stands for params without a "lever" key.
Order(side, amount, reduceOnly, lever) ==
    [type |-> "market", side |-> side, amount |-> amount,
     reduceOnly |-> reduceOnly, lever |-> lever, tdMode |-> MARGIN_MODE]

CreateOrderCall(o, ok) ==
    Call("create_order", o.type, o.side, o.amount, o.reduceOnly, o.lever,
         o.tdMode, ok)

\* "contracts" of a position record that is null or missing.
NullContracts == -1

PositionRecord(symbol, contracts, side) ==
    [symbol |-> symbol, contracts |-> contracts, side |-> side]

\* What exchange.fetch_positions([symbol]) can return while the account's net
\* position is pos (pos > 0 long, pos < 0 short): the record lists, or an
\* exception (ok = FALSE).
PositionResponses(pos) ==
    LET other == PositionRecord(OtherSymbol, 7, "long")
        held == IF pos > 0 THEN PositionRecord(SYMBOL, pos, "long")
                ELSE PositionRecord(SYMBOL, 0 - pos, "short")
        lists == IF pos = 0
                 THEN { <<>>,
                        <<PositionRecord(SYMBOL, 0, None)>>,
                        <<PositionRecord(SYMBOL, NullContracts, None)>>,
                        <<other>>,
                        <<other, PositionRecord(SYMBOL, 0, None)>> }
                 ELSE { <<held>>, <<other, held>>,
                        <<PositionRecord(SYMBOL, 0, None), held>>,
                        <<PositionRecord(SYMBOL, NullContracts, None),
                          other, held>> }
    IN  {[ok |-> FALSE, positions |-> <<>>]}
        \cup {[ok |-> TRUE, positions |-> l] : l \in lists}

\* What exchange.fetch_ticker(symbol) can return: a last price or an exception.
TickerResponses ==
    {[ok |-> FALSE, last |-> 0]} \cup {[ok |-> TRUE, last |-> p] : p \in Prices}

\* Whether the exchange can accept order o on net position pos: a reduce-only
\* order needs a position on the other side to reduce, and no order of
\* quantity 0 is accepted.
CanFill(pos, o) ==
    /\ o.amount > 0
    /\ \/ ~o.reduceOnly
       \/ o.side = "sell" /\ pos > 0
       \/ o.side = "buy" /\ pos < 0

Min(a, b) == IF a < b THEN a ELSE b

\* The net position after order o filled completely on net position pos.
Fill(pos, o) ==
    IF o.reduceOnly
    THEN IF o.side = "sell" THEN pos - Min(o.amount, pos)
         ELSE pos + Min(o.amount, 0 - pos)
    ELSE IF o.side = "buy" THEN pos + o.amount ELSE pos - o.amount

\* Outcomes of create_order: accepted and filled (TRUE) or an exception (FALSE).
OrderOutcomes(pos, o) == IF CanFill(pos, o) THEN BOOLEAN ELSE {FALSE}

\* ------------------------------------------------------- utility functions

\* Prices at which usdt_size / price lies exactly halfway between two 4-decimal
\* values that no double represents, and the double nearest to the quotient is
\* above it, so that f"{amount:.4f}" rounds up.
TiesAboveHalf == {8000, 40000, 200000, 1000000}

\* The quotient cut off after the fourth decimal instead of rounded.
Round4_Truncate(usdt_size, price) == (usdt_size * UnitsPerCoin) \div price

\* float(f"{usdt_size / price:.4f}") in units of 0.0001: the quotient rounded to
\* the nearest unit; an exact half rounds to the even unit when the quotient is
\* a double (625 divides 2q+1), and as the nearest double lies otherwise.
Round4(usdt_size, price) ==
    LET n == usdt_size * UnitsPerCoin
        q == n \div price
        r == n % price
    IN  IF 2 * r < price THEN q
        ELSE IF 2 * r > price THEN q + 1
        ELSE IF (2 * q + 1) % 625 = 0 THEN (IF q % 2 = 0 THEN q ELSE q + 1)
        ELSE IF price \in TiesAboveHalf THEN q + 1 ELSE q

calc_contract_size(usdt_size, price) == Round4(usdt_size, price)

\* p["side"].upper()
SideUpper(side) ==
    CASE side = "long" -> "LONG"
      [] side = "short" -> "SHORT"
      [] OTHER -> side

\* float(p.get("contracts") or 0)
Contracts(p) == IF p.contracts = NullContracts THEN 0 ELSE p.contracts

\* The loop of get_position over the returned records.
RECURSIVE ScanPositions(_)
ScanPositions(positions) ==
    IF positions = <<>> THEN <<"FLAT", 0>>
    ELSE LET p == Head(positions)
         IN  IF p.symbol # SYMBOL THEN ScanPositions(Tail(positions))
             ELSE IF Contracts(p) > 0 THEN <<SideUpper(p.side), Contracts(p)>>
             ELSE ScanPositions(Tail(positions))

\* The loop of get_position taking the first record of the symbol, whatever
\* its contracts.
RECURSIVE ScanPositions_NoSizeTest(_)
ScanPositions_NoSizeTest(positions) ==
    IF positions = <<>> THEN <<"FLAT", 0>>
    ELSE LET p == Head(positions)
         IN  IF p.symbol # SYMBOL
             THEN ScanPositions_NoSizeTest(Tail(positions))
             ELSE <<SideUpper(p.side), Contracts(p)>>

get_position_NoSizeTest(resp) ==
    IF ~resp.ok THEN <<"FLAT", 0>>
    ELSE ScanPositions_NoSizeTest(resp.positions)

\* get_position with the failure of the query reported as an unknown side
\* instead of FLAT.
get_position_FailUnknown(resp) ==
    IF ~resp.ok THEN <<"UNKNOWN", 0>> ELSE ScanPositions(resp.positions)

\* get_position on a fetch_positions response: (side, size).
get_position(resp) ==
    IF ~resp.ok THEN <<"FLAT", 0>> ELSE ScanPositions(resp.positions)

\* close_position without the test of the size.
close_position_NoSizeGuard(side, size) ==
    IF side = "LONG" THEN <<Order("sell", size, TRUE, 0)>>
    ELSE IF side = "SHORT" THEN <<Order("buy", size, TRUE, 0)>>
    ELSE <<>>

\* close_position with the two order directions exchanged.
close_position_SwappedDirection(side, size) ==
    IF size <= 0 THEN <<>>
    ELSE IF side = "LONG" THEN <<Order("buy", size, TRUE, 0)>>
    ELSE IF side = "SHORT" THEN <<Order("sell", size, TRUE, 0)>>
    ELSE <<>>

\* The orders close_position(symbol, side, size) submits: none or one.
close_position(side, size) ==
    IF size <= 0 THEN <<>>
    ELSE IF side = "LONG" THEN <<Order("sell", size, TRUE, 0)>>
    ELSE IF side = "SHORT" THEN <<Order("buy", size, TRUE, 0)>>
    ELSE <<>>

open_long(size) == Order("buy", size, FALSE, LEVERAGE)

open_short(size) == Order("sell", size, FALSE, LEVERAGE)

\* handle_signal with the two sides exchanged in the tests of each branch.
Decide_SwappedSides(sig, side) ==
    IF sig = BUY
    THEN IF side = "SHORT" THEN "return"
         ELSE IF side = "LONG" THEN "close_position" ELSE "open"
    ELSE IF sig = SELL
    THEN IF side = "LONG" THEN "return"
         ELSE IF side = "SHORT" THEN "close_position" ELSE "open"
    ELSE "return"

\* handle_signal opening at once on an opposing side, without closing it.
Decide_NoClose(sig, side) ==
    IF sig = BUY
    THEN IF side = "LONG" THEN "return" ELSE "open"
    ELSE IF sig = SELL
    THEN IF side = "SHORT" THEN "return" ELSE "open"
    ELSE "return"

\* handle_signal without the early return on an already matching side.
Decide_NoEarlyReturn(sig, side) ==
    IF sig = BUY
    THEN IF side = "SHORT" THEN "close_position" ELSE "open"
    ELSE IF sig = SELL
    THEN IF side = "LONG" THEN "close_position" ELSE "open"
    ELSE "return"

\* The branch handle_signal takes once position and size are known:
\* "return", "close_position" (then sleep, then open) or "open".
Decide(sig, side) ==
    IF sig = BUY
    THEN IF side = "LONG" THEN "return"
         ELSE IF side = "SHORT" THEN "close_position" ELSE "open"
    ELSE IF sig = SELL
    THEN IF side = "SHORT" THEN "return"
         ELSE IF side = "LONG" THEN "close_position" ELSE "open"
    ELSE "return"

\* handle_signal going on to its branch although fetch_ticker failed.
AfterCalc_IgnoreFailure(ok, sig, side) ==
    IF sig = BUY
    THEN IF side = "LONG" THEN "return"
         ELSE IF side = "SHORT" THEN "close_position" ELSE "open"
    ELSE IF sig = SELL
    THEN IF side = "SHORT" THEN "return"
         ELSE IF side = "LONG" THEN "close_position" ELSE "open"
    ELSE "return"

\* Where handle_signal goes after calc_contract_size: an exception of
\* fetch_ticker is not caught and leaves handle_signal ("raise").
AfterCalc(ok, sig, side) == IF ~ok THEN "raise" ELSE Decide(sig, side)

\* The opening order of the signal's branch.
open_position(sig, size) == IF sig = BUY THEN open_long(size) ELSE open_short(size)

\* webhook letting every request through, whatever its secret.
SecretAccepted_Always(configured, secret) == TRUE

\* The secret check of webhook: TRUE when the request is let through.
SecretAccepted(configured, secret) == configured = None \/ secret = configured

\* ------------------------------------------------------------------ state

VARIABLES
    WEBHOOK_SECRET,    \* the configured shared secret, or None when unset
    exchangePosition,  \* the account's net position at the exchange (signed)
    orders,            \* every create_order call made, in submission order
    requests,          \* number of webhook requests received so far
    pc,                \* per worker: where its request handler stands
    body,              \* per worker: the JSON body of its request
    signal,            \* per worker: handle_signal's normalized signal
    current_side,      \* per worker: side returned by get_position
    current_size,      \* per worker: size returned by get_position
    new_size,          \* per worker: result of calc_contract_size
    calls,             \* per worker: exchange calls and sleeps of its request
    status,            \* per worker: HTTP status of its response, 0 if none yet
    price,             \* per worker: price calc_contract_size fetched, 0 if none
    probe              \* a utility function applied on its own: [fn, arg, out]

botVars == <<WEBHOOK_SECRET, exchangePosition, orders, requests, pc, body,
             signal, current_side, current_size, new_size, calls, status,
             price>>

vars == <<botVars, probe>>

NoProbe == [fn |-> "none", arg |-> <<>>, out |-> <<>>]

Init ==
    /\ WEBHOOK_SECRET \in ConfiguredSecrets
    /\ exchangePosition \in InitialPositions
    /\ orders = <<>>
    /\ requests = 0
    /\ pc = [w \in Workers |-> "idle"]
    /\ body = [w \in Workers |-> [secret |-> None, signal |-> NoSignal]]
    /\ signal = [w \in Workers |-> <<>>]
    /\ current_side = [w \in Workers |-> "FLAT"]
    /\ current_size = [w \in Workers |-> 0]
    /\ new_size = [w \in Workers |-> 0]
    /\ calls = [w \in Workers |-> <<>>]
    /\ status = [w \in Workers |-> 0]
    /\ price = [w \in Workers |-> 0]
    /\ probe = NoProbe

\* ---------------------------------------------------------------- actions

\* webhook(), up to the call of handle_signal and its first line: an idle
\* worker takes a request, checks the secret and the signal field, and enters
\* handle_signal with the normalized signal.
Webhook(w) ==
    /\ pc[w] = "idle"
    /\ requests < MaxRequests
    /\ requests' = requests + 1
    /\ \E secret \in Secrets, sig \in RawSignals \cup {NoSignal} :
        /\ body' = [body EXCEPT ![w] = [secret |-> secret, signal |-> sig]]
        /\ calls' = [calls EXCEPT ![w] = <<>>]
        /\ current_side' = [current_side EXCEPT ![w] = "FLAT"]
        /\ current_size' = [current_size EXCEPT ![w] = 0]
        /\ new_size' = [new_size EXCEPT ![w] = 0]
        /\ price' = [price EXCEPT ![w] = 0]
        /\ IF ~SecretAccepted(WEBHOOK_SECRET, secret)
           THEN /\ status' = [status EXCEPT ![w] = 403]
                /\ signal' = [signal EXCEPT ![w] = <<>>]
                /\ pc' = pc
           ELSE IF sig = NoSignal
           THEN /\ status' = [status EXCEPT ![w] = 400]
                /\ signal' = [signal EXCEPT ![w] = <<>>]
                /\ pc' = pc
           ELSE /\ status' = [status EXCEPT ![w] = 0]
                /\ signal' = [signal EXCEPT ![w] = Normalize(sig)]
                /\ pc' = [pc EXCEPT ![w] = "get_position"]
    /\ UNCHANGED <<probe, WEBHOOK_SECRET, exchangePosition, orders>>

\* current_side, current_size = get_position(SYMBOL)
GetPosition(w) ==
    /\ pc[w] = "get_position"
    /\ \E resp \in PositionResponses(exchangePosition) :
        /\ current_side' = [current_side EXCEPT ![w] = get_position(resp)[1]]
        /\ current_size' = [current_size EXCEPT ![w] = get_position(resp)[2]]
        /\ calls' = [calls EXCEPT ![w] = Append(@, FetchPositionsCall(resp.ok))]
    /\ pc' = [pc EXCEPT ![w] = "calc_contract_size"]
    /\ UNCHANGED <<probe, WEBHOOK_SECRET, exchangePosition, orders, requests, body,
                   signal, new_size, price, status>>

\* new_size = calc_contract_size(SYMBOL, POSITION_SIZE_USDT), and the branch
\* on signal and current_side that follows it. An exception of fetch_ticker
\* leaves handle_signal and webhook: the response is a 500.
CalcContractSize(w) ==
    /\ pc[w] = "calc_contract_size"
    /\ \E t \in TickerResponses :
        LET branch == AfterCalc(t.ok, signal[w], current_side[w])
        IN  /\ calls' = [calls EXCEPT ![w] = Append(@, FetchTickerCall(t.ok))]
            /\ price' = [price EXCEPT ![w] = IF t.ok THEN t.last ELSE @]
            /\ new_size' = [new_size EXCEPT ![w] =
                   IF t.ok THEN calc_contract_size(POSITION_SIZE_USDT, t.last)
                   ELSE @]
            /\ pc' = [pc EXCEPT ![w] =
                   IF branch \in {"raise", "return"} THEN "idle" ELSE branch]
            /\ status' = [status EXCEPT ![w] =
                   IF branch = "raise" THEN 500
                   ELSE IF branch = "return" THEN 200 ELSE @]
    /\ UNCHANGED <<probe, WEBHOOK_SECRET, exchangePosition, orders, requests, body,
                   signal, current_side, current_size>>

\* close_position(SYMBOL, current_side, current_size): at most one reduce-only
\* order; its exception is caught inside close_position.
ClosePosition(w) ==
    /\ pc[w] = "close_position"
    /\ LET os == close_position(current_side[w], current_size[w])
       IN  IF os = <<>>
           THEN UNCHANGED <<exchangePosition, orders, calls>>
           ELSE \E ok \in OrderOutcomes(exchangePosition, os[1]) :
                   /\ orders' = Append(orders, CreateOrderCall(os[1], ok))
                   /\ calls' = [calls EXCEPT ![w] =
                          Append(@, CreateOrderCall(os[1], ok))]
                   /\ exchangePosition' =
                          IF ok THEN Fill(exchangePosition, os[1])
                          ELSE exchangePosition
    /\ pc' = [pc EXCEPT ![w] = "sleep"]
    /\ UNCHANGED <<probe, WEBHOOK_SECRET, requests, body, signal, current_side,
                   current_size, new_size, price, status>>

\* time.sleep(0.5) after close_position
Sleep(w) ==
    /\ pc[w] = "sleep"
    /\ calls' = [calls EXCEPT ![w] = Append(@, SleepCall)]
    /\ pc' = [pc EXCEPT ![w] = "open"]
    /\ UNCHANGED <<probe, WEBHOOK_SECRET, exchangePosition, orders, requests, body,
                   signal, current_side, current_size, new_size, price, status>>

\* Open remembering the entries made: no opening order is submitted in a
\* direction in which an earlier request already submitted one.
Open_SkipsIfEnteredBefore(w) ==
    /\ pc[w] = "open"
    /\ LET o == open_position(signal[w], new_size[w])
           entered == \E i \in 1..Len(orders) :
                          ~orders[i].reduceOnly /\ orders[i].side = o.side
       IN  IF entered
           THEN UNCHANGED <<orders, calls, exchangePosition>>
           ELSE \E ok \in OrderOutcomes(exchangePosition, o) :
                   /\ orders' = Append(orders, CreateOrderCall(o, ok))
                   /\ calls' = [calls EXCEPT ![w] =
                          Append(@, CreateOrderCall(o, ok))]
                   /\ exchangePosition' =
                          IF ok THEN Fill(exchangePosition, o)
                          ELSE exchangePosition
    /\ pc' = [pc EXCEPT ![w] = "idle"]
    /\ status' = [status EXCEPT ![w] = 200]
    /\ UNCHANGED <<probe, WEBHOOK_SECRET, requests, body, signal, current_side,
                   current_size, new_size, price>>

\* Open sizing the new position like the position it replaces.
Open_OldSize(w) ==
    /\ pc[w] = "open"
    /\ LET o == open_position(signal[w],
                              IF current_size[w] > 0 THEN current_size[w]
                              ELSE new_size[w])
       IN  \E ok \in OrderOutcomes(exchangePosition, o) :
               /\ orders' = Append(orders, CreateOrderCall(o, ok))
               /\ calls' = [calls EXCEPT ![w] = Append(@, CreateOrderCall(o, ok))]
               /\ exchangePosition' =
                      IF ok THEN Fill(exchangePosition, o) ELSE exchangePosition
    /\ pc' = [pc EXCEPT ![w] = "idle"]
    /\ status' = [status EXCEPT ![w] = 200]
    /\ UNCHANGED <<probe, WEBHOOK_SECRET, requests, body, signal, current_side,
                   current_size, new_size, price>>

\* Open submitting the opening order again when create_order raised.
Open_RetryOnFailure(w) ==
    /\ pc[w] = "open"
    /\ LET o == open_position(signal[w], new_size[w])
       IN  \E ok \in OrderOutcomes(exchangePosition, o) :
               /\ orders' = Append(orders, CreateOrderCall(o, ok))
               /\ calls' = [calls EXCEPT ![w] = Append(@, CreateOrderCall(o, ok))]
               /\ exchangePosition' =
                      IF ok THEN Fill(exchangePosition, o) ELSE exchangePosition
               /\ pc' = [pc EXCEPT ![w] = IF ok THEN "idle" ELSE "open"]
               /\ status' = [status EXCEPT ![w] = IF ok THEN 200 ELSE @]
    /\ UNCHANGED <<probe, WEBHOOK_SECRET, requests, body, signal, current_side,
                   current_size, new_size, price>>

\* open_long(SYMBOL, new_size) or open_short(SYMBOL, new_size), whose exception
\* is caught inside; handle_signal returns and webhook answers 200.
Open(w) ==
    /\ pc[w] = "open"
    /\ LET o == open_position(signal[w], new_size[w])
       IN  \E ok \in OrderOutcomes(exchangePosition, o) :
               /\ orders' = Append(orders, CreateOrderCall(o, ok))
               /\ calls' = [calls EXCEPT ![w] = Append(@, CreateOrderCall(o, ok))]
               /\ exchangePosition' =
                      IF ok THEN Fill(exchangePosition, o) ELSE exchangePosition
    /\ pc' = [pc EXCEPT ![w] = "idle"]
    /\ status' = [status EXCEPT ![w] = 200]
    /\ UNCHANGED <<probe, WEBHOOK_SECRET, requests, body, signal, current_side,
                   current_size, new_size, price>>

Next ==
    \E w \in Workers :
        \/ Webhook(w)
        \/ GetPosition(w)
        \/ CalcContractSize(w)
        \/ ClosePosition(w)
        \/ Sleep(w)
        \/ Open(w)

Spec == Init /\ [][Next]_vars

\* The runs in which requests are handled one after the other: a request is
\* taken only when no worker is handling one.
WebhookSeq(w) ==
    /\ \A v \in Workers : pc[v] = "idle"
    /\ Webhook(w)

NextSeq ==
    \E w \in Workers :
        \/ WebhookSeq(w)
        \/ GetPosition(w)
        \/ CalcContractSize(w)
        \/ ClosePosition(w)
        \/ Sleep(w)
        \/ Open(w)

SpecSeq == Init /\ [][NextSeq]_vars

\* ------------------------------------------ utility functions on their own

\* Sides a Position can have.
Sides == {"FLAT", "LONG", "SHORT"}

\* close_position(SYMBOL, side, size) called on any side and size.
ApplyClosePosition ==
    /\ probe = NoProbe
    /\ \E side \in Sides, size \in 0..MaxSize :
        probe' = [fn |-> "close_position",
                  arg |-> [side |-> side, size |-> size],
                  out |-> close_position(side, size)]
    /\ UNCHANGED botVars

\* calc_contract_size(SYMBOL, POSITION_SIZE_USDT) when the ticker reports p.
ApplyCalcContractSize ==
    /\ probe = NoProbe
    /\ \E p \in 1..MaxPrice :
        probe' = [fn |-> "calc_contract_size",
                  arg |-> p,
                  out |-> calc_contract_size(POSITION_SIZE_USDT, p)]
    /\ UNCHANGED botVars

InitUtil ==
    /\ WEBHOOK_SECRET = None
    /\ exchangePosition = 0
    /\ orders = <<>>
    /\ requests = 0
    /\ pc = [w \in Workers |-> "idle"]
    /\ body = [w \in Workers |-> [secret |-> None, signal |-> NoSignal]]
    /\ signal = [w \in Workers |-> <<>>]
    /\ current_side = [w \in Workers |-> "FLAT"]
    /\ current_size = [w \in Workers |-> 0]
    /\ new_size = [w \in Workers |-> 0]
    /\ calls = [w \in Workers |-> <<>>]
    /\ status = [w \in Workers |-> 0]
    /\ price = [w \in Workers |-> 0]
    /\ probe = NoProbe

NextUtil ==
    \/ ApplyClosePosition
    \/ ApplyCalcContractSize

SpecUtil == InitUtil /\ [][NextUtil]_vars

\* ------------------------------------------------- vocabulary of the claims

IsOrder(c) == c.op = "create_order"
IsOpen(c) == IsOrder(c) /\ ~c.reduceOnly
IsClose(c) == IsOrder(c) /\ c.reduceOnly

\* The create_order calls of worker w's current request, in order.
OrdersOf(w) == SelectSeq(calls[w], IsOrder)

\* Worker w has answered its request.
Done(w) == pc[w] = "idle" /\ status[w] # 0

\* Worker w's request was let into handle_signal.
Entered(w) == pc[w] # "idle" \/ status[w] \in {200, 500}

\* Worker w is between the entry of handle_signal and its return.
InHandleSignal(w) == pc[w] # "idle"

Recognized(w) == signal[w] \in {BUY, SELL}

\* Every exchange call of worker w's request so far succeeded.
AllCallsOk(w) == \A i \in 1..Len(calls[w]) : calls[w][i].ok

PositionQueryFailed(w) ==
    Len(calls[w]) >= 1 /\ calls[w][1].op = "fetch_positions" /\ ~calls[w][1].ok

PriceQueryFailed(w) ==
    \E i \in 1..Len(calls[w]) : calls[w][i].op = "fetch_ticker" /\ ~calls[w][i].ok

PriceQueryOk(w) ==
    \E i \in 1..Len(calls[w]) : calls[w][i].op = "fetch_ticker" /\ calls[w][i].ok

\* The side an order direction opens, and the direction that opens a side.
OpenSide(sig) == IF sig = BUY THEN "buy" ELSE "sell"
FlattenSide(side) == IF side = "LONG" THEN "sell" ELSE "buy"

\* The signal already matches the side read / opposes the side read.
Aligned(w) ==
    \/ signal[w] = BUY /\ current_side[w] = "LONG"
    \/ signal[w] = SELL /\ current_side[w] = "SHORT"

Opposed(w) ==
    \/ signal[w] = BUY /\ current_side[w] = "SHORT"
    \/ signal[w] = SELL /\ current_side[w] = "LONG"

\* An order reduced to what the decision table speaks of.
Kind(c) == <<IF c.reduceOnly THEN "close" ELSE "open", c.side>>

KindsOf(w) == [i \in 1..Len(OrdersOf(w)) |-> Kind(OrdersOf(w)[i])]

\* The decision table of the specification: open LONG is a buy, open SHORT a
\* sell, close LONG a reduce-only sell, close SHORT a reduce-only buy.
DecisionTable(side, sig) ==
    CASE side = "FLAT" /\ sig = BUY -> << <<"open", "buy">> >>
      [] side = "FLAT" /\ sig = SELL -> << <<"open", "sell">> >>
      [] side = "LONG" /\ sig = BUY -> <<>>
      [] side = "LONG" /\ sig = SELL -> << <<"close", "sell">>, <<"open", "sell">> >>
      [] side = "SHORT" /\ sig = BUY -> << <<"close", "buy">>, <<"open", "buy">> >>
      [] side = "SHORT" /\ sig = SELL -> <<>>

\* ------------------------------------------------------------------ claims

\* C1: when every exchange call of an invocation succeeds, the invocation has
\* issued, on return, exactly the orders of the decision table for the side it
\* read and the signal it was given; a FLAT side never gets a close order.
C1_DecisionTable ==
    \A w \in Workers :
        (Done(w) /\ status[w] = 200 /\ Recognized(w) /\ AllCallsOk(w)
         /\ current_side[w] \in {"FLAT", "LONG", "SHORT"})
        => /\ KindsOf(w) = DecisionTable(current_side[w], signal[w])
           /\ current_side[w] = "FLAT"
              => \A i \in 1..Len(calls[w]) : ~IsClose(calls[w][i])

\* C1 witness: a LONG position met a SELL signal, all calls succeeded, and the
\* invocation returned after a close and an open.
C1_Witness ==
    \E w \in Workers :
        /\ Done(w) /\ status[w] = 200 /\ AllCallsOk(w)
        /\ signal[w] = SELL /\ current_side[w] = "LONG"
        /\ Len(OrdersOf(w)) = 2

\* C2: in no invocation is an opening order submitted after a reduce-only
\* close order of the same invocation failed.
C2_NoOpenAfterFailedClose ==
    \A w \in Workers :
        \A i, j \in 1..Len(calls[w]) :
            (i < j /\ IsClose(calls[w][i]) /\ ~calls[w][i].ok)
            => ~IsOpen(calls[w][j])

\* C3: an invocation whose normalized signal is neither BUY nor SELL makes no
\* exchange call at all.
C3_UnrecognizedNoCalls ==
    \A w \in Workers :
        (Entered(w) /\ ~Recognized(w)) => calls[w] = <<>>

\* C4: between two consecutive opening orders in the same direction there is
\* always a close order in the opposite direction.
C4_NoDuplicateEntry ==
    \A i, j \in 1..Len(orders) :
        (/\ i < j
         /\ IsOpen(orders[i]) /\ IsOpen(orders[j])
         /\ orders[i].side = orders[j].side
         /\ \A k \in (i + 1)..(j - 1) : ~IsOpen(orders[k]))
        => \E k \in (i + 1)..(j - 1) :
               IsClose(orders[k]) /\ orders[k].side # orders[i].side

\* C5: handling is serialized: the exchange calls of two invocations never
\* interleave, that is, no two workers are at the same time inside
\* handle_signal with exchange calls already made and more to make.
C5_Serialized ==
    \A v, w \in Workers :
        (v # w)
        => ~(/\ InHandleSignal(v) /\ calls[v] # <<>>
             /\ InHandleSignal(w) /\ calls[w] # <<>>)

\* C6: every request let into handle_signal is answered with the structured
\* acknowledgement (200), whatever the exchange calls did.
C6_AlwaysAcknowledged ==
    \A w \in Workers :
        (Done(w) /\ Entered(w)) => status[w] = 200

\* C7: an invocation that read a position opposing its signal and got a price
\* has, on return, made after its two reads exactly: one reduce-only order of
\* the whole size read in the flattening direction, the sleep, one opening
\* order of the newly computed size in the signal's direction; and a sleep
\* never occurs anywhere but right after a close order and before the open.
C7_FlipSequence ==
    \A w \in Workers :
        /\ (Done(w) /\ status[w] = 200 /\ Opposed(w))
           => /\ Len(calls[w]) = 5
              /\ calls[w][1].op = "fetch_positions"
              /\ calls[w][2].op = "fetch_ticker"
              /\ IsClose(calls[w][3])
              /\ calls[w][3].side = FlattenSide(current_side[w])
              /\ calls[w][3].amount = current_size[w]
              /\ calls[w][4].op = "sleep"
              /\ IsOpen(calls[w][5])
              /\ calls[w][5].side = OpenSide(signal[w])
              /\ calls[w][5].amount = new_size[w]
        /\ \A i \in 1..Len(calls[w]) :
              calls[w][i].op = "sleep"
              => /\ i > 1 /\ IsClose(calls[w][i - 1])
                 /\ i < Len(calls[w]) => IsOpen(calls[w][i + 1])
                 /\ (i = Len(calls[w])) => pc[w] = "open"

\* C7 witness: a SHORT position met a BUY signal and the invocation returned
\* after closing the whole position and opening a different, computed size.
C7_Witness ==
    \E w \in Workers :
        /\ Done(w) /\ status[w] = 200
        /\ signal[w] = BUY /\ current_side[w] = "SHORT"
        /\ Len(calls[w]) = 5
        /\ calls[w][3].ok /\ calls[w][5].ok
        /\ current_size[w] # new_size[w]

\* C8: an invocation that read a side already matching its signal submits no
\* order and makes no exchange call but the two reads, and none of its steps
\* changes the position at the exchange.
C8_Idempotent ==
    /\ [](\A w \in Workers :
            Aligned(w)
            => \A i \in 1..Len(calls[w]) :
                   calls[w][i].op \in {"fetch_positions", "fetch_ticker"})
    /\ [][\A w \in Workers :
            (Aligned(w)' /\ calls'[w] # calls[w])
            => exchangePosition' = exchangePosition]_vars

\* C8 witness: the same signal was repeated on a matching position: both
\* workers have returned from a BUY on a LONG position, which is still held.
C8_Witness ==
    /\ \A w \in Workers :
          Done(w) /\ status[w] = 200 /\ signal[w] = BUY
          /\ current_side[w] = "LONG"
    /\ exchangePosition > 0

\* C9: when fetch_positions fails, get_position gives (FLAT, 0) and the
\* invocation goes on; if the price query succeeds it returns having submitted
\* no close order and exactly one opening order in the signal's direction.
C9_FailFlat ==
    \A w \in Workers :
        PositionQueryFailed(w)
        => /\ current_side[w] = "FLAT" /\ current_size[w] = 0
           /\ Len(calls[w]) = 1 => pc[w] = "calc_contract_size"
           /\ (Done(w) /\ PriceQueryOk(w) /\ Recognized(w))
              => /\ status[w] = 200
                 /\ Len(OrdersOf(w)) = 1
                 /\ IsOpen(OrdersOf(w)[1])
                 /\ OrdersOf(w)[1].side = OpenSide(signal[w])

\* C9 witness: the position query failed while the account was long, and the
\* BUY invocation opened a second long on top of it.
C9_Witness ==
    \E w \in Workers :
        /\ PositionQueryFailed(w) /\ Done(w) /\ signal[w] = BUY
        /\ Len(OrdersOf(w)) = 1 /\ OrdersOf(w)[1].ok
        /\ exchangePosition > OrdersOf(w)[1].amount

\* C10: an invocation whose price query failed submits no order.
C10_PriceFailureNoOrders ==
    \A w \in Workers :
        PriceQueryFailed(w) => (OrdersOf(w) = <<>> /\ pc[w] = "idle")

\* C10 witness: the price query failed in an invocation that had read a
\* position opposing its signal.
C10_Witness ==
    \E w \in Workers :
        PriceQueryFailed(w) /\ Opposed(w) /\ Done(w)

\* Worker w has received a request (answered or still being handled).
HasRequest(w) == pc[w] # "idle" \/ status[w] # 0

SignalMissing(w) == body[w].signal = NoSignal

\* C11 as stated: handle_signal is entered only with a secret equal to the
\* configured one and a signal field present; a request with another secret is
\* answered 403 and one with the right secret but no signal 400, both without
\* any exchange call.
C11_OnlyAuthenticated ==
    \A w \in Workers :
        HasRequest(w)
        => /\ Entered(w)
              => (body[w].secret = WEBHOOK_SECRET /\ ~SignalMissing(w))
           /\ body[w].secret # WEBHOOK_SECRET
              => (status[w] = 403 /\ calls[w] = <<>>)
           /\ (body[w].secret = WEBHOOK_SECRET /\ SignalMissing(w))
              => (status[w] = 400 /\ calls[w] = <<>>)

\* C11 amended: the secret is compared only when WEBHOOK_SECRET is configured.
\* A request is rejected for its secret (403, no exchange call) exactly when a
\* secret is configured and the request's differs; a request not so rejected
\* is answered 400 without exchange call when it has no signal field, and
\* enters handle_signal otherwise - with any secret when none is configured.
C11_AuthenticatedWhenConfigured ==
    \A w \in Workers :
        HasRequest(w)
        => LET mismatch == WEBHOOK_SECRET # None
                           /\ body[w].secret # WEBHOOK_SECRET
           IN  /\ Entered(w) <=> (~mismatch /\ ~SignalMissing(w))
               /\ mismatch <=> status[w] = 403
               /\ (~mismatch /\ SignalMissing(w)) <=> status[w] = 400
               /\ status[w] \in {403, 400} => calls[w] = <<>>

\* C11 witness: with a secret configured, one request was refused with 403 and
\* another, carrying the right secret and a signal, is inside handle_signal or
\* has returned from it.
C11_Witness ==
    /\ WEBHOOK_SECRET # None
    /\ \E v, w \in Workers :
          /\ status[v] = 403
          /\ Entered(w) /\ body[w].secret = WEBHOOK_SECRET

\* C12: an invocation submits at most one close order and at most one opening
\* order, and a worker that has answered its request submits nothing more: an
\* order is submitted only by a step of an invocation still in progress.
C12_NoRetry ==
    /\ [](\A w \in Workers :
            \A i, j \in 1..Len(calls[w]) :
                (i < j /\ IsOrder(calls[w][i]) /\ IsOrder(calls[w][j]))
                => (IsClose(calls[w][i]) /\ IsOpen(calls[w][j])))
    /\ [][Len(orders') > Len(orders)
          => /\ Len(orders') = Len(orders) + 1
             /\ \E w \in Workers :
                   /\ pc[w] \in {"close_position", "open"}
                   /\ calls'[w] = Append(calls[w], orders'[Len(orders')])]_vars

\* C12 witness: an invocation has returned after both its close order and its
\* opening order failed, each submitted once.
C12_Witness ==
    \E w \in Workers :
        /\ Done(w) /\ Len(OrdersOf(w)) = 2
        /\ ~OrdersOf(w)[1].ok /\ ~OrdersOf(w)[2].ok

\* C13: close_position submits nothing for size 0; for a LONG or SHORT side
\* of positive size it submits exactly one market order, reduce-only, of that
\* size, selling for LONG and buying for SHORT, never in the direction of the
\* side held; whatever it submits is reduce-only.
C13_ClosePosition ==
    probe.fn = "close_position"
    => LET side == probe.arg.side
           size == probe.arg.size
           out == probe.out
       IN  /\ size = 0 => out = <<>>
           /\ (size > 0 /\ side \in {"LONG", "SHORT"})
              => /\ Len(out) = 1
                 /\ out[1].type = "market"
                 /\ out[1].reduceOnly
                 /\ out[1].amount = size
                 /\ side = "LONG" => out[1].side = "sell"
                 /\ side = "SHORT" => out[1].side = "buy"
                 /\ out[1].side # OpenSide(IF side = "LONG" THEN BUY ELSE SELL)
           /\ \A i \in 1..Len(out) : out[i].reduceOnly

\* C13 witness: close_position was applied to a SHORT side of positive size
\* and submitted one order.
C13_Witness ==
    /\ probe.fn = "close_position"
    /\ probe.arg.side = "SHORT" /\ probe.arg.size > 0
    /\ Len(probe.out) = 1

\* C14: the call made by the opening step of an invocation is a create_order
\* of type market with reduceOnly false, lever LEVERAGE and tdMode MARGIN_MODE,
\* whose amount is the quantity computed from the price this invocation
\* fetched - also when the position read has another size.
C14_OpeningOrder ==
    [][\A w \in Workers :
         (pc[w] = "open" /\ calls'[w] # calls[w])
         => LET c == calls'[w][Len(calls'[w])]
            IN  /\ calls'[w] = Append(calls[w], c)
                /\ orders' = Append(orders, c)
                /\ c.op = "create_order"
                /\ c.type = "market"
                /\ ~c.reduceOnly
                /\ c.lever = LEVERAGE
                /\ c.tdMode = MARGIN_MODE
                /\ price[w] \in Prices
                /\ \E i \in 1..Len(calls[w]) :
                       calls[w][i].op = "fetch_ticker" /\ calls[w][i].ok
                /\ c.amount = calc_contract_size(POSITION_SIZE_USDT, price[w])]_vars

\* C14 witness: a position of size 0.03 was replaced by an opening order of the
\* computed size 0.025.
C14_Witness ==
    \E w \in Workers :
        /\ Done(w) /\ Opposed(w) /\ Len(calls[w]) = 5
        /\ current_size[w] = 300
        /\ IsOpen(calls[w][5]) /\ calls[w][5].ok /\ calls[w][5].amount = 250

\* q units of 0.0001 are usdt / price to 4 decimal places: no 4-decimal value
\* is nearer to the exact quotient, that is |q * price - usdt * 10^4| is at
\* most half a price.
IsQuotientTo4Places(usdt, p, q) ==
    /\ q >= 0
    /\ 2 * (q * p - usdt * UnitsPerCoin) <= p
    /\ 2 * (usdt * UnitsPerCoin - q * p) <= p

\* C15: for every price from 1 to MaxPrice the quantity calc_contract_size
\* computes is POSITION_SIZE_USDT / price to 4 decimal places, and for the
\* price 2000 it is 0.0250.
C15_Sizing ==
    probe.fn = "calc_contract_size"
    => /\ IsQuotientTo4Places(POSITION_SIZE_USDT, probe.arg, probe.out)
       /\ probe.arg = 2000 => probe.out = 250

\* C15 witness: calc_contract_size was applied at the price 2000 and gave
\* 0.0250.
C15_Witness ==
    probe.fn = "calc_contract_size" /\ probe.arg = 2000 /\ probe.out = 250

\* Worker w returns from handle_signal in this step, given a recognized
\* signal, with every exchange call of the invocation having succeeded.
ReturnsAllOk(w) ==
    /\ pc[w] # "idle" /\ pc'[w] = "idle" /\ status'[w] = 200
    /\ Recognized(w)
    /\ \A i \in 1..Len(calls'[w]) : calls'[w][i].ok

\* The net position a signal asks for, of size n.
Target(sig, n) == IF sig = BUY THEN n ELSE 0 - n

\* C16 as stated: in a sequential run, when an invocation whose calls all
\* succeeded returns, the net position is on the signal's side with exactly
\* the size computed in that invocation.
C16_PositionIsComputedSize ==
    [][\A w \in Workers :
         ReturnsAllOk(w)
         => exchangePosition' = Target(signal[w], new_size'[w])]_vars

\* C16 amended: in a sequential run, when an invocation whose calls all
\* succeeded returns, the net position is on the signal's side; its size is
\* exactly the size computed in that invocation when the invocation opened a
\* position (it read FLAT or the opposing side), and it is the position read,
\* untouched, when the side read already matched the signal.
C16_PositionAfterReturn ==
    [][\A w \in Workers :
         ReturnsAllOk(w)
         => IF (Aligned(w))'
            THEN /\ exchangePosition' = exchangePosition
                 /\ exchangePosition' = Target(signal[w], current_size'[w])
                 /\ current_size'[w] > 0
            ELSE /\ exchangePosition' = Target(signal[w], new_size'[w])
                 /\ new_size'[w] > 0]_vars

\* C16 witness: a SHORT position of 0.03 was flipped by a BUY whose calls all
\* succeeded, and the account is long exactly the computed 0.025.
C16_Witness ==
    \E w \in Workers :
        /\ Done(w) /\ AllCallsOk(w) /\ signal[w] = BUY
        /\ current_side[w] = "SHORT" /\ current_size[w] = 300
        /\ exchangePosition = new_size[w] /\ new_size[w] = 250

\* C17: what get_position returned to an invocation has size 0 exactly when
\* its side is FLAT, whichever record list or failure the exchange answered
\* with; and close_position is called, and a close order submitted, only with
\* a LONG or SHORT side of positive size.
C17_PositionInvariant ==
    \A w \in Workers :
        /\ Len(calls[w]) >= 1
           => /\ current_size[w] = 0 <=> current_side[w] = "FLAT"
              /\ current_size[w] >= 0
              /\ current_side[w] \in Sides
        /\ pc[w] = "close_position"
           => (current_side[w] \in {"LONG", "SHORT"} /\ current_size[w] > 0)
        /\ \A i \in 1..Len(calls[w]) :
              IsClose(calls[w][i])
              => (calls[w][i].amount > 0 /\ calls[w][i].amount = current_size[w])

\* C17 witness: one invocation was answered FLAT by a successful query and
\* another, having read a held position, is about to call close_position.
C17_Witness ==
    \E v, w \in Workers :
        /\ Len(calls[v]) >= 1 /\ calls[v][1].ok /\ current_side[v] = "FLAT"
        /\ pc[w] = "close_position" /\ current_size[w] > 0

\* The orders of worker w's invocation as submitted: without their outcome.
SubmittedBy(w) ==
    [i \in 1..Len(OrdersOf(w)) |->
        [type |-> OrdersOf(w)[i].type, side |-> OrdersOf(w)[i].side,
         amount |-> OrdersOf(w)[i].amount,
         reduceOnly |-> OrdersOf(w)[i].reduceOnly,
         lever |-> OrdersOf(w)[i].lever, tdMode |-> OrdersOf(w)[i].tdMode]]

\* Two invocations were given the same signal and the same answers to their
\* position and price queries.
SameInputs(v, w) ==
    /\ signal[v] = signal[w]
    /\ current_side[v] = current_side[w]
    /\ current_size[v] = current_size[w]
    /\ price[v] = price[w]

\* C18: an invocation submits an order only after its own position query and
\* its own successful price query, and two invocations that returned after
\* the same signal and the same answers to these queries submitted the same
\* orders, whatever was handled before each of them.
C18_Stateless ==
    /\ \A w \in Workers :
          \A i \in 1..Len(calls[w]) :
              IsOrder(calls[w][i])
              => /\ i >= 3
                 /\ calls[w][1].op = "fetch_positions"
                 /\ calls[w][2].op = "fetch_ticker" /\ calls[w][2].ok
    /\ \A v, w \in Workers :
          (/\ Done(v) /\ status[v] = 200
           /\ Done(w) /\ status[w] = 200
           /\ SameInputs(v, w))
          => SubmittedBy(v) = SubmittedBy(w)

\* C18 witness: two invocations, one handled after the other's opening order
\* was rejected, got the same signal and the same reads and each submitted one
\* order.
C18_Witness ==
    \E v, w \in Workers :
        /\ v # w /\ SameInputs(v, w)
        /\ Done(v) /\ status[v] = 200 /\ Done(w) /\ status[w] = 200
        /\ Len(OrdersOf(v)) = 1 /\ ~OrdersOf(v)[1].ok
        /\ Len(OrdersOf(w)) = 1
        /\ orders = <<OrdersOf(v)[1], OrdersOf(w)[1]>>

\* C19: every opening order submitted has a quantity greater than 0.
C19_PositiveQuantity ==
    /\ \A i \in 1..Len(orders) :
          ~orders[i].reduceOnly => orders[i].amount > 0
    /\ \A w \in Workers : pc[w] = "open" => new_size[w] > 0

====
